---- MODULE Spec2Model ----
(***************************************************************************)
(* Fault-injection engine and checkout orchestration of the multi-service  *)
(* demo backend (backend/shared/error_injection.py,                        *)
(* backend/shared/service_names.py, backend/services/*/app.py).            *)
(*                                                                         *)
(* Conventions                                                             *)
(*  - A Python str that is matched character by character (endpoint        *)
(*    patterns and endpoint paths) is a sequence of one-character strings. *)
(*  - A rate r of the catalog is the integer 100*r; a value u returned by  *)
(*    random.random() (u in [0,1)) is the integer floor(100*u) in 0..99.   *)
(*    All rates are multiples of 0.01, so u < r iff floor(100u) < 100r.    *)
(*  - Python None is the empty tuple; the tuple returned by                *)
(*    get_error_for_service is a 3-tuple.                                  *)
(***************************************************************************)
EXTENDS Integers, Sequences, FiniteSets, TLC

VARIABLES
    \* ---- injection engine under evaluation (SpecEngine) ----
    catalog,        \* the ERROR_SCENARIOS dict the engine reads
    service_name,   \* argument of get_error_for_service
    endpoint,       \* argument of get_error_for_service
    rnd,            \* the values random.random() will return, in order
    error_info,     \* the value returned by get_error_for_service
    drawn,          \* number of random.random() calls made
    raised,         \* name of the exception that escaped, "" if none
    epc,            \* "idle" | "ready" | "done"
    should_inject,  \* the value returned by should_inject_error for the same draws
    should_drawn,   \* number of random.random() calls should_inject_error made
    spc,            \* "idle" | "ready" | "done"
    \* ---- endpoint matching under evaluation (SpecMatch) ----
    pattern,        \* one entry of a scenario's "endpoints" list
    path,           \* the endpoint the handler passes
    endpoint_matches, \* value of the endpoint_matches local
    mpc,            \* "idle" | "ready" | "done"
    \* ---- services handling one client request (Spec) ----
    stack,          \* the handler invocations in progress, innermost last; stack[1] is the client
    calls,          \* every HTTP request issued so far, with what call_service got back
    \* ---- state of the processes, and a second request in flight (SpecConc) ----
    registry,       \* the SERVICE_REGISTRY dict get_service_url reads
    parked,         \* stack and calls of the request that is not running now, <<>> if none
    cur             \* the request that is running now: 1 or 2

engineVars == <<catalog, service_name, endpoint, rnd, error_info, drawn, raised, epc,
                should_inject, should_drawn, spc>>
matchVars == <<pattern, path, endpoint_matches, mpc>>
flowVars == <<stack, calls>>
procVars == <<registry, parked, cur>>

(***************************************************************************)
(* Endpoint strings of the catalog and of the handlers.                    *)
(***************************************************************************)
P_star == <<"*">>
P_api_star == <<"/", "a", "p", "i", "/", "*">>
P_validate == <<"/", "v", "a", "l", "i", "d", "a", "t", "e">>
P_refresh == <<"/", "r", "e", "f", "r", "e", "s", "h">>
P_login == <<"/", "l", "o", "g", "i", "n">>
P_users_star == <<"/", "u", "s", "e", "r", "s", "/", "*">>
P_profile == <<"/", "p", "r", "o", "f", "i", "l", "e">>
P_orders == <<"/", "o", "r", "d", "e", "r", "s">>
P_checkout == <<"/", "c", "h", "e", "c", "k", "o", "u", "t">>
P_process == <<"/", "p", "r", "o", "c", "e", "s", "s">>
P_charge == <<"/", "c", "h", "a", "r", "g", "e">>
P_reserve == <<"/", "r", "e", "s", "e", "r", "v", "e">>
P_check == <<"/", "c", "h", "e", "c", "k">>
P_send == <<"/", "s", "e", "n", "d">>
P_email == <<"/", "e", "m", "a", "i", "l">>
P_track == <<"/", "t", "r", "a", "c", "k">>
P_events == <<"/", "e", "v", "e", "n", "t", "s">>
P_search == <<"/", "s", "e", "a", "r", "c", "h">>
P_query == <<"/", "q", "u", "e", "r", "y">>
P_users == <<"/", "u", "s", "e", "r", "s">>
P_products == <<"/", "p", "r", "o", "d", "u", "c", "t", "s">>
P_api_login == <<"/", "a", "p", "i", "/", "l", "o", "g", "i", "n">>
P_api_products == <<"/", "a", "p", "i", "/", "p", "r", "o", "d", "u", "c", "t", "s">>
P_api_checkout == <<"/", "a", "p", "i", "/", "c", "h", "e", "c", "k", "o", "u", "t">>
P_health == <<"/", "h", "e", "a", "l", "t", "h">>
P_release == <<"/", "r", "e", "l", "e", "a", "s", "e">>
P_refund == <<"/", "r", "e", "f", "u", "n", "d">>

(***************************************************************************)
(* ERROR_SCENARIOS: service -> scenarios in declaration order (a Python    *)
(* dict iterates in insertion order).                                      *)
(***************************************************************************)
\* the variant that reads the rate as a percentage
Scenario_Percent(name, rate, endpoints, error_class, message, status_code) ==
    [name |-> name, rate |-> rate * 100, endpoints |-> endpoints,
     error_class |-> error_class, message |-> message, status_code |-> status_code]

Scenario(name, rate, endpoints, error_class, message, status_code) ==
    [name |-> name, rate |-> rate, endpoints |-> endpoints,
     error_class |-> error_class, message |-> message, status_code |-> status_code]

ERROR_SCENARIOS ==
    [s \in {"api-gateway", "auth-service", "user-service", "order-service",
            "payment-service", "inventory-service", "notification-service",
            "analytics-service", "search-service"} |->
     CASE s = "api-gateway" -> <<
            Scenario("rate_limit_exceeded", 2, <<P_api_star>>, "RateLimitError",
                     "Rate limit exceeded. Please retry after 60 seconds.", 429),
            Scenario("service_unavailable", 1, <<P_star>>, "ServiceUnavailableError",
                     "Downstream service temporarily unavailable", 503) >>
       [] s = "auth-service" -> <<
            Scenario("invalid_token", 5, <<P_validate, P_refresh>>, "AuthenticationError",
                     "Invalid or expired authentication token", 401),
            Scenario("account_locked", 2, <<P_login>>, "AccountLockedException",
                     "Account locked due to too many failed attempts", 403) >>
       [] s = "user-service" -> <<
            Scenario("user_not_found", 3, <<P_users_star, P_profile>>, "UserNotFoundError",
                     "User not found in database", 404),
            Scenario("database_timeout", 1, <<P_star>>, "DatabaseTimeoutError",
                     "Database query timed out after 30 seconds", 504) >>
       [] s = "order-service" -> <<
            Scenario("order_validation_failed", 4, <<P_orders, P_checkout>>, "OrderValidationError",
                     "Order validation failed: invalid items in cart", 400),
            Scenario("inventory_sync_error", 2, <<P_checkout>>, "InventorySyncError",
                     "Failed to sync with inventory service", 500) >>
       [] s = "payment-service" -> <<
            Scenario("payment_declined", 6, <<P_process, P_charge>>, "PaymentDeclinedException",
                     "Payment declined by card issuer", 402),
            Scenario("fraud_detected", 2, <<P_process>>, "FraudDetectionError",
                     "Transaction flagged by fraud detection system", 403),
            Scenario("gateway_timeout", 3, <<P_star>>, "PaymentGatewayTimeoutError",
                     "Payment gateway did not respond in time", 504) >>
       [] s = "inventory-service" -> <<
            Scenario("out_of_stock", 8, <<P_reserve, P_check>>, "OutOfStockError",
                     "Requested item is out of stock", 409),
            Scenario("warehouse_unreachable", 2, <<P_star>>, "WarehouseConnectionError",
                     "Unable to connect to warehouse management system", 503) >>
       [] s = "notification-service" -> <<
            Scenario("email_delivery_failed", 4, <<P_send, P_email>>, "EmailDeliveryError",
                     "Failed to deliver email: SMTP connection refused", 502),
            Scenario("template_not_found", 1, <<P_send>>, "TemplateNotFoundError",
                     "Email template not found", 404) >>
       [] s = "analytics-service" -> <<
            Scenario("event_processing_failed", 2, <<P_track, P_events>>, "EventProcessingError",
                     "Failed to process analytics event", 500),
            Scenario("queue_full", 1, <<P_star>>, "QueueFullError",
                     "Event queue is full, events may be dropped", 503) >>
       [] s = "search-service" -> <<
            Scenario("search_timeout", 3, <<P_search, P_query>>, "SearchTimeoutError",
                     "Search query timed out", 504),
            Scenario("index_not_ready", 1, <<P_star>>, "IndexNotReadyError",
                     "Search index is currently being rebuilt", 503) >> ]

(***************************************************************************)
(* get_error_for_service                                                   *)
(***************************************************************************)
None == <<>>

\* str.startswith
StartsWith(s, prefix) ==
    /\ Len(prefix) <= Len(s)
    /\ SubSeq(s, 1, Len(prefix)) = prefix

\* the variant that strips a final "/*" as a whole
ReplaceStar_StripSlash(ep) ==
    LET t == SelectSeq(ep, LAMBDA c : c # "*")
    IN  IF Len(t) >= 2 /\ t[Len(t)] = "/" THEN SubSeq(t, 1, Len(t) - 1) ELSE t

\* the variant that compares against the pattern as written, "*" included
ReplaceStar_Keep(ep) == ep

\* ep.replace("*", ""): every occurrence of "*" is removed
ReplaceStar(ep) == SelectSeq(ep, LAMBDA c : c # "*")

\* x in list
InList(x, list) == \E i \in 1..Len(list) : list[i] = x

\* endpoint_matches = "*" in endpoints or any(endpoint.startswith(ep.replace("*", "")) for ep in endpoints)
EndpointMatches(endpoints, ep) ==
    \/ InList(P_star, endpoints)
    \/ \E i \in 1..Len(endpoints) : StartsWith(ep, ReplaceStar(endpoints[i]))

\* the variant that forgets the endpoint filter
Matching_NoFilter(scenarios, ep) == scenarios

\* the list "matching", in declaration order
Matching(scenarios, ep) ==
    SelectSeq(scenarios, LAMBDA sc : EndpointMatches(sc.endpoints, ep))

\* the variant that compares with <=
Fires_Le(draw, rate) == draw <= rate

\* random.random() < scenario["rate"]
Fires(draw, rate) == draw < rate

\* (scenario["error_class"], scenario["message"], scenario["status_code"])
ErrorTuple(sc) == <<sc.error_class, sc.message, sc.status_code>>

\* the variant that keeps looping after a scenario fired and returns the last that fired
RECURSIVE TryScenarios_Last(_, _, _)
TryScenarios_Last(matching, r, i) ==
    IF i > Len(matching)
    THEN [error_info |-> None, drawn |-> i - 1, raised |-> ""]
    ELSE LET rest == TryScenarios_Last(matching, r, i + 1)
         IN  IF rest.error_info # None THEN rest
             ELSE IF Fires(r[i], matching[i].rate)
                  THEN [error_info |-> ErrorTuple(matching[i]), drawn |-> rest.drawn, raised |-> ""]
                  ELSE rest

\* the variant that draws for every matching scenario before it looks at the rates
RECURSIVE TryScenarios_DrawAll(_, _, _)
TryScenarios_DrawAll(matching, r, i) ==
    IF i > Len(matching)
    THEN [error_info |-> None, drawn |-> Len(matching), raised |-> ""]
    ELSE IF Fires(r[i], matching[i].rate)
         THEN [error_info |-> ErrorTuple(matching[i]), drawn |-> Len(matching), raised |-> ""]
         ELSE TryScenarios_DrawAll(matching, r, i + 1)

\* the loop "for scenario_name, scenario in matching", from its i-th iteration;
\* r[i] is the value of the i-th random.random() call
RECURSIVE TryScenarios(_, _, _)
TryScenarios(matching, r, i) ==
    IF i > Len(matching)
    THEN [error_info |-> None, drawn |-> i - 1, raised |-> ""]
    ELSE IF Fires(r[i], matching[i].rate)
         THEN [error_info |-> ErrorTuple(matching[i]), drawn |-> i, raised |-> ""]
         ELSE TryScenarios(matching, r, i + 1)

\* the variant of the loop that draws for every scenario, matching or not
RECURSIVE ShouldInjectLoop_NoMatchTest(_, _, _, _, _)
ShouldInjectLoop_NoMatchTest(scenarios, ep, r, j, n) ==
    IF j > Len(scenarios)
    THEN [result |-> FALSE, drawn |-> n]
    ELSE IF Fires(r[n + 1], scenarios[j].rate)
         THEN [result |-> TRUE, drawn |-> n + 1]
         ELSE ShouldInjectLoop_NoMatchTest(scenarios, ep, r, j + 1, n + 1)

\* the loop "for scenario_name, scenario in scenarios.items()" of
\* should_inject_error from scenario j, n draws made so far
RECURSIVE ShouldInjectLoop(_, _, _, _, _)
ShouldInjectLoop(scenarios, ep, r, j, n) ==
    IF j > Len(scenarios)
    THEN [result |-> FALSE, drawn |-> n]
    ELSE IF EndpointMatches(scenarios[j].endpoints, ep)
         THEN IF Fires(r[n + 1], scenarios[j].rate)
              THEN [result |-> TRUE, drawn |-> n + 1]
              ELSE ShouldInjectLoop(scenarios, ep, r, j + 1, n + 1)
         ELSE ShouldInjectLoop(scenarios, ep, r, j + 1, n)

ShouldInjectError(cat, svc, ep, r) ==
    IF svc \notin DOMAIN cat
    THEN [result |-> FALSE, drawn |-> 0]
    ELSE ShouldInjectLoop(cat[svc], ep, r, 1, 0)

\* the variant that indexes ERROR_SCENARIOS without the membership test
GetErrorForService_NoGuard(cat, svc, ep, r) ==
    IF svc \notin DOMAIN cat
    THEN [error_info |-> None, drawn |-> 0, raised |-> "KeyError"]
    ELSE TryScenarios(Matching(cat[svc], ep), r, 1)

GetErrorForService(cat, svc, ep, r) ==
    IF svc \notin DOMAIN cat
    THEN [error_info |-> None, drawn |-> 0, raised |-> ""]
    ELSE LET matching == Matching(cat[svc], ep)
         IN  IF matching = <<>>
             THEN [error_info |-> None, drawn |-> 0, raised |-> ""]
             ELSE TryScenarios(matching, r, 1)

(***************************************************************************)
(* Inputs of the engine evaluation: the shipped catalog with the endpoints *)
(* the handlers pass, and small catalogs enumerating rates 0.0, 0.05 and   *)
(* 1.0 with exact, prefix and wildcard patterns.                           *)
(***************************************************************************)
MaxScenarios == 2      \* scenarios per service in an enumerated catalog
MaxLen == 3            \* length of an enumerated pattern or path

\* draws on both sides of every rate of the shipped catalog (1..8 hundredths)
DrawValues == (0..8) \cup {99}
\* draws of the handlers of the checkout flow: below every rate, between the
\* rates, above every rate
FlowDraws == {0, 5, 99}
TestDraws == {0, 5, 99}
TestRates == {0, 5, 100}

T_a == <<"/", "a">>
T_a_star == <<"/", "a", "/", "*">>
T_a_b == <<"/", "a", "/", "b">>
T_b == <<"/", "b">>
T_c == <<"/", "c">>
TestEndpointLists == {<<P_star>>, <<T_a>>, <<T_a_star>>, <<T_b, T_a_b>>}
TestEndpoints == {T_a, T_a_b, T_b, T_c}

TestScenario(i, rate, endpoints) ==
    Scenario(<<"scenario", i>>, rate, endpoints, <<"Error", i>>, <<"message", i>>, 500 + i)

TestScenarioLists ==
    UNION { { [i \in 1..n |-> TestScenario(i, f[i][1], f[i][2])] :
              f \in [1..n -> TestRates \X TestEndpointLists] } : n \in 0..MaxScenarios }

TestCatalogs == { [s \in {"test-service"} |-> l] : l \in TestScenarioLists }

HandlerEndpoints ==
    {P_star, P_api_login, P_api_checkout, P_login, P_validate, P_refresh, P_users,
     P_profile, P_checkout, P_orders, P_process, P_charge, P_reserve, P_check,
     P_products, P_send, P_email, P_track, P_events, P_search, P_query, P_health}

Alphabet == {"/", "a", "*"}
Strs == UNION { [1..n -> Alphabet] : n \in 1..MaxLen }

EngineIdle ==
    /\ service_name = ""
    /\ endpoint = <<>>
    /\ rnd = <<>>
    /\ error_info = None
    /\ drawn = 0
    /\ raised = ""
    /\ epc = "idle"
    /\ should_inject = FALSE
    /\ should_drawn = 0
    /\ spc = "idle"

MatchIdle ==
    /\ pattern = <<>>
    /\ path = <<>>
    /\ endpoint_matches = FALSE
    /\ mpc = "idle"

(***************************************************************************)
(* SERVICE_REGISTRY and get_service_url                                    *)
(***************************************************************************)
SERVICE_REGISTRY ==
    [s \in {"api-gateway", "auth-service", "user-service", "order-service",
            "payment-service", "inventory-service", "notification-service",
            "analytics-service", "search-service"} |->
     CASE s = "api-gateway" -> [port |-> 5000, downstream |-> <<"auth-service", "user-service", "order-service", "search-service">>]
       [] s = "auth-service" -> [port |-> 5001, downstream |-> <<"analytics-service">>]
       [] s = "user-service" -> [port |-> 5002, downstream |-> <<"analytics-service", "notification-service">>]
       [] s = "order-service" -> [port |-> 5003, downstream |-> <<"payment-service", "inventory-service", "notification-service">>]
       [] s = "payment-service" -> [port |-> 5004, downstream |-> <<"notification-service">>]
       [] s = "inventory-service" -> [port |-> 5005, downstream |-> <<"notification-service">>]
       [] s = "notification-service" -> [port |-> 5006, downstream |-> <<>>]
       [] s = "analytics-service" -> [port |-> 5007, downstream |-> <<>>]
       [] s = "search-service" -> [port |-> 5008, downstream |-> <<"inventory-service">>] ]

\* one request at a time, under the shipped registry
Alone ==
    /\ registry = SERVICE_REGISTRY
    /\ parked = <<>>
    /\ cur = 1

FlowIdle ==
    /\ stack = <<>>
    /\ calls = <<>>
    /\ Alone

(***************************************************************************)
(* SpecEngine: one evaluation of get_error_for_service.                    *)
(***************************************************************************)
EngineInit ==
    /\ catalog \in {ERROR_SCENARIOS} \cup TestCatalogs
    /\ service_name \in DOMAIN catalog \cup {"unknown-service"}
    /\ endpoint \in (IF catalog = ERROR_SCENARIOS THEN HandlerEndpoints ELSE TestEndpoints)
    /\ rnd = <<>>
    /\ error_info = None
    /\ drawn = 0
    /\ raised = ""
    /\ epc = "ready"
    /\ should_inject = FALSE
    /\ should_drawn = 0
    /\ spc = "ready"
    /\ MatchIdle
    /\ FlowIdle

NumScenarios == IF service_name \in DOMAIN catalog THEN Len(catalog[service_name]) ELSE 0

Evaluate ==
    /\ epc = "ready"
    /\ \E r \in [1..NumScenarios -> IF catalog = ERROR_SCENARIOS THEN DrawValues ELSE TestDraws] :
          LET res == GetErrorForService(catalog, service_name, endpoint, r)
          IN  /\ rnd' = r
              /\ error_info' = res.error_info
              /\ drawn' = res.drawn
              /\ raised' = res.raised
    /\ epc' = "done"
    /\ UNCHANGED <<catalog, service_name, endpoint, should_inject, should_drawn, spc>>
    /\ UNCHANGED <<matchVars, flowVars, procVars>>

\* should_inject_error applied to the same arguments, random.random()
\* returning the same values in the same order
EvaluateShouldInject ==
    /\ epc = "done"
    /\ spc = "ready"
    /\ LET res == ShouldInjectError(catalog, service_name, endpoint, rnd)
       IN  /\ should_inject' = res.result
           /\ should_drawn' = res.drawn
    /\ spc' = "done"
    /\ UNCHANGED <<catalog, service_name, endpoint, rnd, error_info, drawn, raised, epc>>
    /\ UNCHANGED <<matchVars, flowVars, procVars>>

EngineNext == Evaluate \/ EvaluateShouldInject

(***************************************************************************)
(* SpecMatch: one evaluation of the endpoint_matches expression for a      *)
(* scenario whose "endpoints" list holds a single pattern.                 *)
(***************************************************************************)
\* the enumerated strings, and the catalog's '/api/*' with request paths
MatchPatterns == Strs \cup {P_api_star}
MatchPaths == Strs \cup {P_api_login, P_api_checkout, P_health}

MatchInit ==
    /\ pattern \in MatchPatterns
    /\ path \in MatchPaths
    /\ endpoint_matches = FALSE
    /\ mpc = "ready"
    /\ catalog = <<>>
    /\ EngineIdle
    /\ FlowIdle

MatchEndpoint ==
    /\ mpc = "ready"
    /\ endpoint_matches' = EndpointMatches(<<pattern>>, path)
    /\ mpc' = "done"
    /\ UNCHANGED <<pattern, path>>
    /\ UNCHANGED <<engineVars, flowVars, procVars>>

MatchNext == MatchEndpoint

(***************************************************************************)
(* Values exchanged between handlers.                                      *)
(*  - what call_service hands back: the decoded JSON body (the HTTP status *)
(*    is kept beside it, call_service itself never reads it) or a raised   *)
(*    exception;                                                           *)
(*  - what a handler answers: HTTP status and JSON body.                   *)
(***************************************************************************)
Unset ==
    [kind |-> "unset", status |-> 0, success |-> FALSE, error |-> "", message |-> "",
     order_status |-> "", order_total |-> 0]
Pending == [Unset EXCEPT !.kind = "pending"]
InFlight == [Unset EXCEPT !.kind = "in_flight"]
Json(resp) ==
    [kind |-> "json", status |-> resp.status, success |-> resp.success, error |-> resp.error,
     message |-> resp.message, order_status |-> resp.order_status,
     order_total |-> resp.order_total]
Raised(type) == [Unset EXCEPT !.kind = "exception", !.error = type]
Returned(r) == r.kind \in {"json", "exception"}

NoResponse ==
    [status |-> 0, success |-> FALSE, error |-> "", message |-> "", order_status |-> "",
     order_total |-> 0]
Ok == [NoResponse EXCEPT !.status = 200, !.success = TRUE]

\* InjectedError(message, error_type, status_code)
InjectedError(info) ==
    [type |-> "InjectedError", message |-> info[2], has_attrs |-> TRUE,
     error_type |-> info[1], status_code |-> info[3]]

\* an exception without error_type and status_code attributes
PlainException(type) ==
    [type |-> type, message |-> type, has_attrs |-> FALSE, error_type |-> "", status_code |-> 0]

\* the variant that answers every exception with status 500
HandleException_Always500(error) ==
    [status |-> 500,
     success |-> FALSE,
     error |-> IF error.has_attrs THEN error.error_type ELSE error.type,
     message |-> error.message,
     order_status |-> "",
     order_total |-> 0]

\* @app.errorhandler(Exception), identical in every service
HandleException(error) ==
    [status |-> IF error.has_attrs THEN error.status_code ELSE 500,
     success |-> FALSE,
     error |-> IF error.has_attrs THEN error.error_type ELSE error.type,
     message |-> error.message,
     order_status |-> "",
     order_total |-> 0]

(***************************************************************************)
(* Request data                                                            *)
(***************************************************************************)
MaxItems == 2          \* items in one checkout request

\* PRODUCTS of order-service (prices in cents)
ORDER_PRODUCTS ==
    << [id |-> "prod_001", has_price |-> TRUE, price |-> 2999],
       [id |-> "prod_002", has_price |-> TRUE, price |-> 4999],
       [id |-> "prod_003", has_price |-> TRUE, price |-> 7999],
       [id |-> "prod_004", has_price |-> TRUE, price |-> 3999],
       [id |-> "prod_005", has_price |-> TRUE, price |-> 5999] >>

\* stock column of PRODUCTS of inventory-service
INVENTORY_STOCK ==
    [p \in {"prod_001", "prod_002", "prod_003", "prod_004",
            "prod_005", "prod_006", "prod_007", "prod_008"} |->
     CASE p = "prod_001" -> 150 [] p = "prod_002" -> 75 [] p = "prod_003" -> 45
       [] p = "prod_004" -> 200 [] p = "prod_005" -> 100 [] p = "prod_006" -> 30
       [] p = "prod_007" -> 500 [] p = "prod_008" -> 25 ]

\* items a client may send: two catalog products and an item the inventory
\* does not know, sent without a price
ItemChoices ==
    {ORDER_PRODUCTS[1], ORDER_PRODUCTS[3], [id |-> "prod_999", has_price |-> FALSE, price |-> 0]}
ItemLists == UNION { [1..n -> ItemChoices] : n \in 1..MaxItems }

\* the variant that stops adding at the first item without a price
RECURSIVE Total_StopsAtUnpriced(_)
Total_StopsAtUnpriced(items) ==
    IF items = <<>> \/ ~ Head(items).has_price THEN 0
    ELSE Head(items).price + Total_StopsAtUnpriced(Tail(items))

\* sum(item.get('price', 0) for item in items)
RECURSIVE Total(_)
Total(items) ==
    IF items = <<>> THEN 0
    ELSE (IF Head(items).has_price THEN Head(items).price ELSE 0) + Total(Tail(items))

\* [{'product_id': item['id'], 'quantity': 1} for item in items]
ReserveItems(items) == [i \in 1..Len(items) |-> [product_id |-> items[i].id, quantity |-> 1]]

\* product.get('stock', 0) < 10 with product = PRODUCTS.get(product_id, {})
LowStock(item) ==
    (IF item.product_id \in DOMAIN INVENTORY_STOCK THEN INVENTORY_STOCK[item.product_id] ELSE 0) < 10

(***************************************************************************)
(* Trace headers: a header map is a function from header names to values,  *)
(* a value is a tuple of strings.                                          *)
(***************************************************************************)
TraceKeys == {"traceparent", "tracestate"}
NoHeaders == [k \in {} |-> <<>>]

\* the variant that forwards the trace id under a span id of its own
GetTraceHeaders_Regenerate(inbound) ==
    [k \in TraceKeys \cap DOMAIN inbound |->
        IF k = "traceparent" THEN [inbound[k] EXCEPT ![3] = "0000000000000001"] ELSE inbound[k]]

\* the variant that forwards every inbound header: dict(request.headers)
GetTraceHeaders_All(inbound) == inbound

\* the variant that adds an entry of its own to the tracestate it forwards
GetTraceHeaders_Append(inbound) ==
    [k \in TraceKeys \cap DOMAIN inbound |->
        IF k = "tracestate" THEN Append(inbound[k], "hop=1") ELSE inbound[k]]

\* get_trace_headers: the two keys are copied when the inbound request has them
GetTraceHeaders(inbound) == [k \in TraceKeys \cap DOMAIN inbound |-> inbound[k]]

\* headers = get_trace_headers(); headers['Content-Type'] = 'application/json'
OutboundHeaders(inbound) ==
    LET headers == GetTraceHeaders(inbound)
    IN  [k \in DOMAIN headers \cup {"Content-Type"} |->
            IF k = "Content-Type" THEN <<"application/json">> ELSE headers[k]]

\* headers of the request that enters the system
Traceparent == <<"00", "0af7651916cd43dd8448eb211c80319c", "b7ad6b7169203331", "01">>
Tracestate == <<"vendor=value">>
ClientHeaders ==
    [k \in TraceKeys \cup {"Content-Type", "User-Agent"} |->
        CASE k = "traceparent" -> Traceparent
          [] k = "tracestate" -> Tracestate
          [] k = "Content-Type" -> <<"application/json">>
          [] k = "User-Agent" -> <<"Mozilla/5.0">>]
ClientHeaderSets ==
    { [k \in S \cup {"Content-Type", "User-Agent"} |-> ClientHeaders[k]] : S \in SUBSET TraceKeys }

(***************************************************************************)
(* Handler invocations                                                     *)
(*  headers  : headers of the inbound request                              *)
(*  id       : index in calls of the request being handled (0: none)       *)
(*  ninv     : call_service invocations made so far by this handler        *)
(*  target   : service_name argument of the latest call_service invocation *)
(*  injected : arguments of the InjectedError raised by maybe_raise_error  *)
(*  consults : maybe_raise_error calls made so far by this handler         *)
(*  drawn_for: names of the scenarios that got a random draw, in order     *)
(***************************************************************************)
Frame(svc, route, data) ==
    [service |-> svc, route |-> route, pc |-> "entry", data |-> data,
     ret |-> Unset, call |-> 0, response |-> NoResponse, total |-> 0, i |-> 0,
     headers |-> NoHeaders, id |-> 0, ninv |-> 0, target |-> "", injected |-> None,
     consults |-> 0, drawn_for |-> <<>>]

Top == stack[Len(stack)]
At(svc, pc) == Len(stack) >= 1 /\ Top.service = svc /\ Top.pc = pc
SetTop(f) == [stack EXCEPT ![Len(stack)] = f]
Respond(f, resp) == [f EXCEPT !.pc = "responded", !.response = resp]

\* the values random.random() returns during one get_error_for_service call
DrawSeqs(svc, ep) == [1..Len(Matching(catalog[svc], ep)) -> FlowDraws]

\* maybe_raise_error: None when nothing is raised, else the raised InjectedError's arguments
MaybeRaiseError(svc, ep, r) == GetErrorForService(catalog, svc, ep, r).error_info

\* frame f after one maybe_raise_error(svc, ep) call whose draws are r
Consulted(f, svc, ep, r) ==
    LET matching == Matching(catalog[svc], ep)
        res == GetErrorForService(catalog, svc, ep, r)
    IN  [f EXCEPT !.consults = f.consults + 1,
                  !.drawn_for = f.drawn_for \o [i \in 1..res.drawn |-> matching[i].name]]

\* maybe_raise_error raised: the error handler answers
Reject(f, info) == Respond([f EXCEPT !.injected = info], HandleException(InjectedError(info)))

\* one HTTP request leaves frame f, which moves to next_pc and waits for the
\* outcome; inv names the invocation it belongs to, net what became of it
Request(f, svc, p, data, headers, next_pc) ==
    /\ stack' = SetTop([f EXCEPT !.pc = next_pc, !.ret = Pending, !.call = Len(calls) + 1])
    /\ calls' = Append(calls, [caller |-> f.service, service |-> svc, path |-> p,
                               data |-> data, headers |-> headers,
                               inv |-> <<f.id, f.ninv>>, net |-> "none",
                               result |-> Pending])

\* the variant in which get_service_url falls back to a default URL
GetServiceUrlRaises_Default(svc) == FALSE

\* get_service_url: TRUE when it raises ValueError("Unknown service: ...")
GetServiceUrlRaises(svc) == svc \notin DOMAIN registry

\* call_service up to the requests.post / requests.get call
CallService(f, svc, p, data, next_pc) ==
    LET g == [f EXCEPT !.ninv = f.ninv + 1, !.target = svc]
    IN  IF GetServiceUrlRaises(svc)
        THEN /\ stack' = SetTop([g EXCEPT !.pc = next_pc, !.ret = Raised("ValueError")])
             /\ calls' = calls
        ELSE Request(g, svc, p, data, OutboundHeaders(f.headers), next_pc)

\* Flask routing of the services' routes that the checkout flow reaches;
\* any other URL ends in the error handler with werkzeug's NotFound
Route(svc, p, data) ==
    IF \/ svc = "order-service" /\ p = P_checkout
       \/ svc = "inventory-service" /\ p = P_reserve
       \/ svc = "payment-service" /\ p = P_process
       \/ svc = "notification-service" /\ p = P_send
       \/ svc = "api-gateway" /\ p = P_api_checkout
       \/ svc = "api-gateway" /\ p = P_api_products
       \/ svc = "inventory-service" /\ p = P_products
       \/ svc = "auth-service" /\ p = P_login
       \/ svc = "analytics-service" /\ p = P_track
    THEN Frame(svc, p, data)
    ELSE Respond(Frame(svc, p, data), HandleException(PlainException("NotFound")))

(***************************************************************************)
(* The network                                                             *)
(***************************************************************************)
\* the variant in which call_service sends the request once more after a
\* ConnectionError
ConnectionFails_Retry ==
    /\ Len(stack) >= 1
    /\ Top.ret.kind = "pending"
    /\ LET c == calls[Top.call]
           sent == {n \in DOMAIN calls : calls[n].inv = c.inv}
       IN  IF Cardinality(sent) < 2
           THEN /\ stack' = SetTop([Top EXCEPT !.call = Len(calls) + 1])
                /\ calls' = Append([calls EXCEPT ![Top.call].result = Raised("ConnectionError"),
                                                 ![Top.call].net = "connection_error"],
                                   c)
           ELSE /\ stack' = SetTop([Top EXCEPT !.ret = Raised("ConnectionError")])
                /\ calls' = [calls EXCEPT ![Top.call].result = Raised("ConnectionError"),
                                          ![Top.call].net = "connection_error"]
    /\ UNCHANGED <<engineVars, matchVars, procVars>>

\* requests.post raises ConnectionError: the request never reaches the callee
ConnectionFails ==
    /\ Len(stack) >= 1
    /\ Top.ret.kind = "pending"
    /\ stack' = SetTop([Top EXCEPT !.ret = Raised("ConnectionError")])
    /\ calls' = [calls EXCEPT ![Top.call].result = Raised("ConnectionError"),
                              ![Top.call].net = "connection_error"]
    /\ UNCHANGED <<engineVars, matchVars, procVars>>

\* the request reaches the callee, whose handler starts
Dispatch ==
    /\ Len(stack) >= 1
    /\ Top.ret.kind = "pending"
    /\ LET c == calls[Top.call]
       IN  stack' = Append(SetTop([Top EXCEPT !.ret = InFlight]),
                           [Route(c.service, c.path, c.data) EXCEPT !.headers = c.headers,
                                                                    !.id = Top.call])
    /\ calls' = [calls EXCEPT ![Top.call].result = InFlight, ![Top.call].net = "sent"]
    /\ UNCHANGED <<engineVars, matchVars, procVars>>

\* the callee's answer reaches the caller: return resp.json()
ResponseArrives ==
    /\ Len(stack) >= 2
    /\ Top.pc = "responded"
    /\ LET caller == stack[Len(stack) - 1]
       IN  /\ stack' = [SubSeq(stack, 1, Len(stack) - 1) EXCEPT ![Len(stack) - 1].ret = Json(Top.response)]
           /\ calls' = [calls EXCEPT ![caller.call].result = Json(Top.response),
                                     ![caller.call].net = "response"]
    /\ UNCHANGED <<engineVars, matchVars, procVars>>

\* the variant in which a timed-out notification request is sent again
\* instead of raising
ReadTimeout_Resend ==
    /\ Len(stack) >= 2
    /\ Top.pc = "responded"
    /\ LET caller == stack[Len(stack) - 1]
           c == calls[caller.call]
       IN  IF Top.service = "notification-service"
           THEN /\ stack' = SetTop([Route(c.service, c.path, c.data)
                                        EXCEPT !.headers = c.headers, !.id = caller.call])
                /\ calls' = calls
           ELSE /\ stack' = [SubSeq(stack, 1, Len(stack) - 1)
                                EXCEPT ![Len(stack) - 1].ret = Raised("ReadTimeout")]
                /\ calls' = [calls EXCEPT ![caller.call].result = Raised("ReadTimeout"),
                                          ![caller.call].net = "timeout"]
    /\ UNCHANGED <<engineVars, matchVars, procVars>>

\* the answer does not arrive within timeout=30: requests raises ReadTimeout
ReadTimeout ==
    /\ Len(stack) >= 2
    /\ Top.pc = "responded"
    /\ LET caller == stack[Len(stack) - 1]
       IN  /\ stack' = [SubSeq(stack, 1, Len(stack) - 1) EXCEPT ![Len(stack) - 1].ret = Raised("ReadTimeout")]
           /\ calls' = [calls EXCEPT ![caller.call].result = Raised("ReadTimeout"),
                                     ![caller.call].net = "timeout"]
    /\ UNCHANGED <<engineVars, matchVars, procVars>>

(***************************************************************************)
(* The client: one POST /checkout to order-service, or one POST            *)
(* /api/checkout to api-gateway                                            *)
(***************************************************************************)
\* (items, headers) of the entering request: every item list under the full
\* trace headers, every header set with every one-item list; no handler
\* relates the body of a request to its headers
ClientRequests ==
    {<<items, ClientHeaders>> : items \in ItemLists}
        \cup {<<items, h>> : items \in [1..1 -> ItemChoices], h \in ClientHeaderSets}

ClientCheckout ==
    /\ At("client", "entry")
    /\ \E q \in ClientRequests :
          Request([Top EXCEPT !.ninv = 1, !.target = "order-service"],
                  "order-service", P_checkout, [items |-> q[1]], q[2], "await_checkout")
    /\ UNCHANGED <<engineVars, matchVars, procVars>>

ClientApiCheckout ==
    /\ At("client", "entry")
    /\ \E q \in ClientRequests :
          Request([Top EXCEPT !.ninv = 1, !.target = "api-gateway"],
                  "api-gateway", P_api_checkout, [items |-> q[1]], q[2], "await_checkout")
    /\ UNCHANGED <<engineVars, matchVars, procVars>>

\* GET /api/products
ClientApiProducts ==
    /\ At("client", "entry")
    /\ \E h \in ClientHeaderSets :
          Request([Top EXCEPT !.ninv = 1, !.target = "api-gateway"],
                  "api-gateway", P_api_products, [items |-> <<>>], h, "await_products")
    /\ UNCHANGED <<engineVars, matchVars, procVars>>

\* POST /login to auth-service
ClientLogin ==
    /\ At("client", "entry")
    /\ \E h \in ClientHeaderSets :
          Request([Top EXCEPT !.ninv = 1, !.target = "auth-service"],
                  "auth-service", P_login, [items |-> <<>>], h, "await_login")
    /\ UNCHANGED <<engineVars, matchVars, procVars>>

(***************************************************************************)
(* analytics-service: track_event                                          *)
(***************************************************************************)
AnalyticsTrack ==
    /\ At("analytics-service", "entry")
    /\ \E r \in DrawSeqs("analytics-service", P_track) :
          LET info == MaybeRaiseError("analytics-service", P_track, r)
              f == Consulted(Top, "analytics-service", P_track, r)
          IN  stack' = SetTop(IF info # None THEN Reject(f, info) ELSE Respond(f, Ok))
    /\ UNCHANGED calls
    /\ UNCHANGED <<engineVars, matchVars, procVars>>

(***************************************************************************)
(* auth-service: login                                                     *)
(***************************************************************************)
AuthLogin ==
    /\ At("auth-service", "entry")
    /\ \E r \in DrawSeqs("auth-service", P_login) :
          LET info == MaybeRaiseError("auth-service", P_login, r)
              f == Consulted(Top, "auth-service", P_login, r)
          IN  IF info # None
              THEN /\ stack' = SetTop(Reject(f, info))
                   /\ calls' = calls
              ELSE CallService(f, "analytics-service", P_track,
                               [event |-> "user.login"], "await_track")
    /\ UNCHANGED <<engineVars, matchVars, procVars>>

\* except Exception: log a warning -- the login still succeeds
AuthTrackReturn ==
    /\ At("auth-service", "await_track")
    /\ Returned(Top.ret)
    /\ stack' = SetTop(Respond(Top, Ok))
    /\ UNCHANGED calls
    /\ UNCHANGED <<engineVars, matchVars, procVars>>

(***************************************************************************)
(* notification-service: send_notification                                 *)
(***************************************************************************)
\* the variant in which a scenario that fired is switched off in the catalog
NotificationSend_DisarmsScenario ==
    /\ At("notification-service", "entry")
    /\ \E r \in DrawSeqs("notification-service", P_send) :
          LET info == MaybeRaiseError("notification-service", P_send, r)
              f == Consulted(Top, "notification-service", P_send, r)
              own == catalog["notification-service"]
          IN  /\ stack' = SetTop(IF info # None THEN Reject(f, info) ELSE Respond(f, Ok))
              /\ catalog' = IF info = None THEN catalog
                            ELSE [catalog EXCEPT !["notification-service"] =
                                    [j \in DOMAIN own |->
                                        IF own[j].error_class = info[1]
                                        THEN [own[j] EXCEPT !.rate = 0] ELSE own[j]]]
    /\ UNCHANGED calls
    /\ UNCHANGED <<service_name, endpoint, rnd, error_info, drawn, raised, epc,
                   should_inject, should_drawn, spc>>
    /\ UNCHANGED <<matchVars, procVars>>

NotificationSend ==
    /\ At("notification-service", "entry")
    /\ \E r \in DrawSeqs("notification-service", P_send) :
          LET info == MaybeRaiseError("notification-service", P_send, r)
              f == Consulted(Top, "notification-service", P_send, r)
          IN  stack' = SetTop(IF info # None THEN Reject(f, info) ELSE Respond(f, Ok))
    /\ UNCHANGED calls
    /\ UNCHANGED <<engineVars, matchVars, procVars>>

(***************************************************************************)
(* inventory-service: reserve_stock                                        *)
(***************************************************************************)
\* the loop "for item in items" from index i: stops at the next low-stock
\* item to send its alert, or answers when the items are exhausted
RECURSIVE ReserveLoop(_, _)
ReserveLoop(f, i) ==
    IF i > Len(f.data.items)
    THEN /\ stack' = SetTop(Respond(f, Ok))
         /\ calls' = calls
    ELSE IF LowStock(f.data.items[i])
         THEN CallService([f EXCEPT !.i = i], "notification-service", P_send,
                          [template |-> "low_stock_alert"], "await_alert")
         ELSE ReserveLoop(f, i + 1)

InventoryReserve ==
    /\ At("inventory-service", "entry")
    /\ Top.route = P_reserve
    /\ \E r \in DrawSeqs("inventory-service", P_reserve) :
          LET info == MaybeRaiseError("inventory-service", P_reserve, r)
              f == Consulted(Top, "inventory-service", P_reserve, r)
          IN  IF info # None
              THEN /\ stack' = SetTop(Reject(f, info))
                   /\ calls' = calls
              ELSE ReserveLoop(f, 1)
    /\ UNCHANGED <<engineVars, matchVars, procVars>>

\* list_products: maybe_raise_error, then the product list
InventoryListProducts ==
    /\ At("inventory-service", "entry")
    /\ Top.route = P_products
    /\ \E r \in DrawSeqs("inventory-service", P_products) :
          LET info == MaybeRaiseError("inventory-service", P_products, r)
              f == Consulted(Top, "inventory-service", P_products, r)
          IN  stack' = SetTop(IF info # None THEN Reject(f, info) ELSE Respond(f, Ok))
    /\ UNCHANGED calls
    /\ UNCHANGED <<engineVars, matchVars, procVars>>

\* except Exception: pass -- and the returned body is not looked at
InventoryAlertReturn ==
    /\ At("inventory-service", "await_alert")
    /\ Returned(Top.ret)
    /\ ReserveLoop(Top, Top.i + 1)
    /\ UNCHANGED <<engineVars, matchVars, procVars>>

(***************************************************************************)
(* payment-service: process_payment                                        *)
(***************************************************************************)
PaymentProcess ==
    /\ At("payment-service", "entry")
    /\ \E r1 \in DrawSeqs("payment-service", P_process), r2 \in DrawSeqs("payment-service", P_validate) :
          LET info1 == MaybeRaiseError("payment-service", P_process, r1)
              info2 == MaybeRaiseError("payment-service", P_validate, r2)
              f1 == Consulted(Top, "payment-service", P_process, r1)
              f2 == Consulted(f1, "payment-service", P_validate, r2)
          IN  IF info1 # None
              THEN /\ stack' = SetTop(Reject(f1, info1))
                   /\ calls' = calls
              ELSE IF info2 # None
                   THEN /\ stack' = SetTop(Reject(f2, info2))
                        /\ calls' = calls
                   ELSE CallService(f2, "notification-service", P_send,
                                    [template |-> "payment_receipt"], "await_receipt")
    /\ UNCHANGED <<engineVars, matchVars, procVars>>

\* the variant without the try/except around the receipt call
PaymentReceiptReturn_Propagate ==
    /\ At("payment-service", "await_receipt")
    /\ Returned(Top.ret)
    /\ stack' = SetTop(Respond(Top, IF Top.ret.kind = "exception"
                                     THEN HandleException(PlainException(Top.ret.error))
                                     ELSE Ok))
    /\ UNCHANGED calls
    /\ UNCHANGED <<engineVars, matchVars, procVars>>

\* except Exception: log a warning -- the payment still succeeds
PaymentReceiptReturn ==
    /\ At("payment-service", "await_receipt")
    /\ Returned(Top.ret)
    /\ stack' = SetTop(Respond(Top, Ok))
    /\ UNCHANGED calls
    /\ UNCHANGED <<engineVars, matchVars, procVars>>

(***************************************************************************)
(* order-service: checkout                                                 *)
(***************************************************************************)
\* 'order': {'status': 'completed', 'total': total, ...}
Completed(total) == [Ok EXCEPT !.order_status = "completed", !.order_total = total]

\* the variant that sends the reservation request before it looks at the
\* injection decision
OrderCheckout_CallFirst ==
    /\ At("order-service", "entry")
    /\ \E r \in DrawSeqs("order-service", P_checkout) :
          LET info == MaybeRaiseError("order-service", P_checkout, r)
          IN  CallService([Top EXCEPT !.total = Total(Top.data.items), !.injected = info],
                          "inventory-service", P_reserve,
                          [items |-> ReserveItems(Top.data.items)], "await_reserve")
    /\ UNCHANGED <<engineVars, matchVars, procVars>>

\* maybe_raise_error, the total, then Step 1 up to its call
OrderCheckout ==
    /\ At("order-service", "entry")
    /\ \E r \in DrawSeqs("order-service", P_checkout) :
          LET info == MaybeRaiseError("order-service", P_checkout, r)
              f == Consulted(Top, "order-service", P_checkout, r)
          IN  IF info # None
              THEN /\ stack' = SetTop(Reject(f, info))
                   /\ calls' = calls
              ELSE CallService([f EXCEPT !.total = Total(f.data.items)],
                               "inventory-service", P_reserve,
                               [items |-> ReserveItems(Top.data.items)], "await_reserve")
    /\ UNCHANGED <<engineVars, matchVars, procVars>>

\* Step 1 from the return of its call: an exception is logged and re-raised,
\* any returned body leads on to Step 2 up to its call
OrderReserveReturn ==
    /\ At("order-service", "await_reserve")
    /\ Returned(Top.ret)
    /\ IF Top.ret.kind = "exception"
       THEN /\ stack' = SetTop(Respond(Top, HandleException(PlainException(Top.ret.error))))
            /\ calls' = calls
       ELSE CallService(Top, "payment-service", P_process, [amount |-> Top.total], "await_payment")
    /\ UNCHANGED <<engineVars, matchVars, procVars>>

\* the variant that answers after the payment without sending the confirmation
OrderPaymentReturn_NoNotify ==
    /\ At("order-service", "await_payment")
    /\ Returned(Top.ret)
    /\ stack' = SetTop(Respond(Top, IF Top.ret.kind = "exception"
                                    THEN HandleException(PlainException(Top.ret.error))
                                    ELSE Completed(Top.total)))
    /\ UNCHANGED calls
    /\ UNCHANGED <<engineVars, matchVars, procVars>>

\* the variant that releases the reservation before re-raising
OrderPaymentReturn_Release ==
    /\ At("order-service", "await_payment")
    /\ Returned(Top.ret)
    /\ IF Top.ret.kind = "exception"
       THEN /\ stack' = SetTop(Respond(Top, HandleException(PlainException(Top.ret.error))))
            /\ calls' = Append(calls, [caller |-> "order-service", service |-> "inventory-service",
                                       path |-> P_release, data |-> [amount |-> 0],
                                       headers |-> OutboundHeaders(Top.headers),
                                       inv |-> <<Top.id, Top.ninv + 1>>, net |-> "response",
                                       result |-> Json(Ok)])
       ELSE CallService(Top, "notification-service", P_send, [total |-> Top.total], "await_notify")
    /\ UNCHANGED <<engineVars, matchVars, procVars>>

\* Step 2 from the return of its call: an exception is logged and re-raised,
\* any returned body leads on to Step 3 up to its call
OrderPaymentReturn ==
    /\ At("order-service", "await_payment")
    /\ Returned(Top.ret)
    /\ IF Top.ret.kind = "exception"
       THEN /\ stack' = SetTop(Respond(Top, HandleException(PlainException(Top.ret.error))))
            /\ calls' = calls
       ELSE CallService(Top, "notification-service", P_send, [total |-> Top.total], "await_notify")
    /\ UNCHANGED <<engineVars, matchVars, procVars>>

\* the variant without the try/except around the confirmation call
OrderNotifyReturn_Raises ==
    /\ At("order-service", "await_notify")
    /\ Returned(Top.ret)
    /\ stack' = SetTop(Respond(Top, IF Top.ret.kind = "exception"
                                    THEN HandleException(PlainException(Top.ret.error))
                                    ELSE Completed(Top.total)))
    /\ UNCHANGED calls
    /\ UNCHANGED <<engineVars, matchVars, procVars>>

\* Step 3 from the return of its call: an exception is logged as a warning,
\* a returned body is dropped; the order is completed either way
OrderNotifyReturn ==
    /\ At("order-service", "await_notify")
    /\ Returned(Top.ret)
    /\ stack' = SetTop(Respond(Top, Completed(Top.total)))
    /\ UNCHANGED calls
    /\ UNCHANGED <<engineVars, matchVars, procVars>>

(***************************************************************************)
(* api-gateway: return jsonify(result)                                     *)
(***************************************************************************)
\* the variant that answers with the status the downstream service answered
Jsonify_PassStatus(result) ==
    [status |-> result.status, success |-> result.success, error |-> result.error,
     message |-> result.message, order_status |-> result.order_status,
     order_total |-> result.order_total]

\* the returned dict as body, under Flask's default status 200
Jsonify(result) ==
    [status |-> 200, success |-> result.success, error |-> result.error,
     message |-> result.message, order_status |-> result.order_status,
     order_total |-> result.order_total]

(***************************************************************************)
(* api-gateway: checkout                                                   *)
(***************************************************************************)
\* maybe_raise_error, data['user'] = user, then the body goes on to order-service
GatewayCheckout ==
    /\ At("api-gateway", "entry")
    /\ Top.route = P_api_checkout
    /\ \E r \in DrawSeqs("api-gateway", P_api_checkout) :
          LET info == MaybeRaiseError("api-gateway", P_api_checkout, r)
              f == Consulted(Top, "api-gateway", P_api_checkout, r)
          IN  IF info # None
              THEN /\ stack' = SetTop(Reject(f, info))
                   /\ calls' = calls
              ELSE CallService(f, "order-service", P_checkout,
                               [items |-> Top.data.items, user |-> "random_user"], "await_order")
    /\ UNCHANGED <<engineVars, matchVars, procVars>>

\* return jsonify(result): the returned body under status 200; an exception
\* of call_service ends in the error handler
GatewayCheckoutReturn ==
    /\ At("api-gateway", "await_order")
    /\ Returned(Top.ret)
    /\ stack' = SetTop(Respond(Top,
                   IF Top.ret.kind = "exception"
                   THEN HandleException(PlainException(Top.ret.error))
                   ELSE Jsonify(Top.ret)))
    /\ UNCHANGED calls
    /\ UNCHANGED <<engineVars, matchVars, procVars>>

(***************************************************************************)
(* api-gateway: list_products                                              *)
(***************************************************************************)
GatewayListProducts ==
    /\ At("api-gateway", "entry")
    /\ Top.route = P_api_products
    /\ \E r \in DrawSeqs("api-gateway", P_api_products) :
          LET info == MaybeRaiseError("api-gateway", P_api_products, r)
              f == Consulted(Top, "api-gateway", P_api_products, r)
          IN  IF info # None
              THEN /\ stack' = SetTop(Reject(f, info))
                   /\ calls' = calls
              ELSE CallService(f, "inventory-service", P_products, [items |-> <<>>],
                               "await_products")
    /\ UNCHANGED <<engineVars, matchVars, procVars>>

GatewayListProductsReturn ==
    /\ At("api-gateway", "await_products")
    /\ Returned(Top.ret)
    /\ stack' = SetTop(Respond(Top,
                   IF Top.ret.kind = "exception"
                   THEN HandleException(PlainException(Top.ret.error))
                   ELSE Jsonify(Top.ret)))
    /\ UNCHANGED calls
    /\ UNCHANGED <<engineVars, matchVars, procVars>>

(***************************************************************************)
(* Spec: one checkout request through order-service and its downstreams,   *)
(* sent to order-service or through api-gateway                            *)
(***************************************************************************)
Init ==
    /\ catalog = ERROR_SCENARIOS
    /\ EngineIdle
    /\ MatchIdle
    /\ stack = << Frame("client", <<>>, [items |-> <<>>]) >>
    /\ calls = <<>>
    /\ Alone

Next ==
    \/ ClientCheckout
    \/ ClientApiCheckout
    \/ GatewayCheckout
    \/ GatewayCheckoutReturn
    \/ ClientApiProducts
    \/ GatewayListProducts
    \/ GatewayListProductsReturn
    \/ InventoryListProducts
    \/ ClientLogin
    \/ AuthLogin
    \/ AuthTrackReturn
    \/ AnalyticsTrack
    \/ Dispatch
    \/ ConnectionFails
    \/ ResponseArrives
    \/ ReadTimeout
    \/ OrderCheckout
    \/ OrderReserveReturn
    \/ OrderPaymentReturn
    \/ OrderNotifyReturn
    \/ InventoryReserve
    \/ InventoryAlertReturn
    \/ PaymentProcess
    \/ PaymentReceiptReturn
    \/ NotificationSend

(***************************************************************************)
(* SpecCall: one call_service invocation made by a handler, with any       *)
(* service name, followed by what the network and the callee make of it    *)
(***************************************************************************)
\* services whose app.py defines call_service with the modelled body
CallerServices == {"api-gateway", "order-service", "payment-service", "inventory-service"}

\* (service_name, path, data) arguments: registered services with a route
\* and without one, a name of VIRTUAL_SERVICE_NAMES, a name found nowhere
CallArguments ==
    { <<"notification-service", P_send, [template |-> "order_confirmation"]>>,
      <<"payment-service", P_process, [amount |-> 2999]>>,
      <<"notification-service", P_health, [template |-> ""]>>,
      <<"edge-proxy", P_health, [template |-> ""]>>,
      <<"billing-service", P_charge, [amount |-> 2999]>> }
      \cup { <<"inventory-service", P_reserve, [items |-> ReserveItems(items)]>> : items \in ItemLists }

CallInit ==
    /\ catalog = ERROR_SCENARIOS
    /\ EngineIdle
    /\ MatchIdle
    /\ \E svc \in CallerServices, h \in ClientHeaderSets :
          stack = << [Frame(svc, <<>>, [items |-> <<>>]) EXCEPT !.pc = "handler", !.headers = h] >>
    /\ calls = <<>>
    /\ Alone

InvokeCallService ==
    /\ Len(stack) = 1
    /\ Top.pc = "handler"
    /\ \E a \in CallArguments : CallService(Top, a[1], a[2], a[3], "called")
    /\ UNCHANGED <<engineVars, matchVars, procVars>>

CallNext ==
    \/ InvokeCallService
    \/ Dispatch
    \/ ConnectionFails
    \/ ResponseArrives
    \/ ReadTimeout
    \/ InventoryReserve
    \/ InventoryAlertReturn
    \/ PaymentProcess
    \/ PaymentReceiptReturn
    \/ NotificationSend

vars == <<engineVars, matchVars, flowVars, procVars>>

Spec == Init /\ [][Next]_vars

(***************************************************************************)
(* SpecLive: one checkout under fairness. Every handler thread keeps       *)
(* running and every request on the wire is delivered, answered or timed   *)
(* out (requests is always called with timeout=30): a step that can be     *)
(* taken is eventually taken. The requests are the ones that make the      *)
(* reservation loop send the most alerts, and one that makes it send none. *)
(***************************************************************************)
LiveItemLists ==
    {[i \in 1..n |-> [id |-> "prod_999", has_price |-> FALSE, price |-> 0]] : n \in 1..MaxItems}
        \cup {<<ORDER_PRODUCTS[1]>>}

\* POST /checkout to order-service
LiveCheckout ==
    /\ At("client", "entry")
    /\ \E items \in LiveItemLists :
          Request([Top EXCEPT !.ninv = 1, !.target = "order-service"],
                  "order-service", P_checkout, [items |-> items], ClientHeaders, "await_checkout")
    /\ UNCHANGED <<engineVars, matchVars, procVars>>

\* POST /api/checkout to api-gateway
LiveApiCheckout ==
    /\ At("client", "entry")
    /\ \E items \in LiveItemLists :
          Request([Top EXCEPT !.ninv = 1, !.target = "api-gateway"],
                  "api-gateway", P_api_checkout, [items |-> items], ClientHeaders, "await_checkout")
    /\ UNCHANGED <<engineVars, matchVars, procVars>>

LiveNext ==
    \/ LiveCheckout
    \/ LiveApiCheckout
    \/ GatewayCheckout
    \/ GatewayCheckoutReturn
    \/ Dispatch
    \/ ConnectionFails
    \/ ResponseArrives
    \/ ReadTimeout
    \/ OrderCheckout
    \/ OrderReserveReturn
    \/ OrderPaymentReturn
    \/ OrderNotifyReturn
    \/ InventoryReserve
    \/ InventoryAlertReturn
    \/ PaymentProcess
    \/ PaymentReceiptReturn
    \/ NotificationSend

SpecLive == Init /\ [][LiveNext]_vars /\ WF_vars(LiveNext)

SpecEngine == EngineInit /\ [][EngineNext]_vars
SpecMatch == MatchInit /\ [][MatchNext]_vars
SpecCall == CallInit /\ [][CallNext]_vars

(***************************************************************************)
(* SpecConc: two requests in flight at once, a checkout and a reservation. *)
(* The Flask development server handles each request on a thread of its    *)
(* own; the threads of one process share the module globals                *)
(* ERROR_SCENARIOS and SERVICE_REGISTRY, everything else a handler touches  *)
(* is local to its request. The running request owns stack and calls, the  *)
(* other one is parked; Switch is a context switch between the two.        *)
(***************************************************************************)
\* one-item requests: a product in stock, and one the inventory does not know
\* (stock 0, so that its reservation sends a low-stock alert)
ConcItemLists ==
    [1..1 -> {ORDER_PRODUCTS[1], [id |-> "prod_999", has_price |-> FALSE, price |-> 0]}]

ConcInit ==
    /\ catalog = ERROR_SCENARIOS
    /\ EngineIdle
    /\ MatchIdle
    /\ stack = << Frame("client", <<>>, [items |-> <<>>]) >>
    /\ calls = <<>>
    /\ registry = SERVICE_REGISTRY
    /\ parked = [stack |-> << Frame("client", <<>>, [items |-> <<>>]) >>, calls |-> <<>>]
    /\ cur = 1

\* request 1: POST /checkout to order-service
ConcCheckout ==
    /\ cur = 1
    /\ At("client", "entry")
    /\ \E items \in ConcItemLists :
          Request([Top EXCEPT !.ninv = 1, !.target = "order-service"],
                  "order-service", P_checkout, [items |-> items], ClientHeaders, "await_checkout")
    /\ UNCHANGED <<engineVars, matchVars, procVars>>

\* request 2: POST /reserve to inventory-service
ConcReserve ==
    /\ cur = 2
    /\ At("client", "entry")
    /\ \E items \in ConcItemLists :
          Request([Top EXCEPT !.ninv = 1, !.target = "inventory-service"],
                  "inventory-service", P_reserve, [items |-> ReserveItems(items)],
                  ClientHeaders, "await_reserve")
    /\ UNCHANGED <<engineVars, matchVars, procVars>>

\* the thread of the other request gets the processor
Switch ==
    /\ parked # <<>>
    /\ stack' = parked.stack
    /\ calls' = parked.calls
    /\ parked' = [stack |-> stack, calls |-> calls]
    /\ cur' = 3 - cur
    /\ UNCHANGED <<registry, engineVars, matchVars>>

ConcNext ==
    \/ ConcCheckout
    \/ ConcReserve
    \/ Switch
    \/ Dispatch
    \/ ConnectionFails
    \/ ResponseArrives
    \/ ReadTimeout
    \/ OrderCheckout
    \/ OrderReserveReturn
    \/ OrderPaymentReturn
    \/ OrderNotifyReturn
    \/ InventoryReserve
    \/ InventoryAlertReturn
    \/ PaymentProcess
    \/ PaymentReceiptReturn
    \/ NotificationSend

SpecConc == ConcInit /\ [][ConcNext]_vars

(***************************************************************************)
(* Properties of the checkout workflow (Spec)                              *)
(***************************************************************************)
\* the requests order-service has issued, in order of issue
OrderCalls == SelectSeq(calls, LAMBDA c : c.caller = "order-service")

\* the invocations of order-service's checkout handler in progress
OrderFrames == {k \in DOMAIN stack : stack[k].service = "order-service"}

\* a step's call ended in a failure: the callee answered with a non-2xx
\* injected error, or the call raised
InjectedFailure(r) == r.kind = "json" /\ r.status \notin 200..299
TransportFailure(r) == r.kind = "exception"
StepFailed(r) == InjectedFailure(r) \/ TransportFailure(r)
StepSucceeded(r) == r.kind = "json" /\ r.status \in 200..299 /\ r.success

CheckoutSteps ==
    << <<"inventory-service", P_reserve>>,
       <<"payment-service", P_process>>,
       <<"notification-service", P_send>> >>

\* C1: when the inventory reserve step ends in an injected or a transport
\* failure, the workflow ends in Aborted and order-service issues neither the
\* payment /process call nor the notification /send call.
C1_ReserveFailureAborts ==
    (Len(OrderCalls) >= 1 /\ StepFailed(OrderCalls[1].result))
        => /\ Len(OrderCalls) = 1
           /\ \A k \in OrderFrames :
                 stack[k].pc = "responded" => ~ stack[k].response.success

\* C2: when the reserve step fails with a scenario injected by
\* inventory-service, the checkout response carries that scenario's status code.
C2_ReserveFailureStatus ==
    \A k \in OrderFrames :
        (/\ stack[k].pc = "responded"
         /\ Len(OrderCalls) >= 1
         /\ InjectedFailure(OrderCalls[1].result))
            => stack[k].response.status = OrderCalls[1].result.status

\* C3: the payment step is entered only after a successful reservation, and
\* a payment step that ends in an injected or a transport failure aborts the
\* workflow without the notification step.
C3_PaymentGuardedAndCritical ==
    /\ Len(OrderCalls) >= 2 => StepSucceeded(OrderCalls[1].result)
    /\ (Len(OrderCalls) >= 2 /\ StepFailed(OrderCalls[2].result))
          => /\ Len(OrderCalls) = 2
             /\ \A k \in OrderFrames :
                   stack[k].pc = "responded" => ~ stack[k].response.success

\* C4: once the notification step has been reached, its failure of any kind
\* leaves the outcome unchanged: success=true, order status "completed".
C4_NotificationFailureIgnored ==
    \A k \in OrderFrames :
        (/\ stack[k].pc = "responded"
         /\ Len(OrderCalls) = 3
         /\ StepFailed(OrderCalls[3].result))
            => /\ stack[k].response.success
               /\ stack[k].response.status = 200
               /\ stack[k].response.order_status = "completed"

C4_Witness ==
    \E k \in OrderFrames :
        /\ stack[k].pc = "responded"
        /\ Len(OrderCalls) = 3
        /\ TransportFailure(OrderCalls[3].result)
        /\ stack[k].response.order_status = "completed"

\* the checkout handler has answered, or its answer has already left
OrderTerminal ==
    \/ \E k \in OrderFrames : stack[k].pc = "responded"
    \/ \E n \in DOMAIN calls : calls[n].service = "order-service" /\ Returned(calls[n].result)

C5_StepOrder ==
    /\ Len(OrderCalls) <= 3
    /\ \A n \in 1..Len(OrderCalls) :
          <<OrderCalls[n].service, OrderCalls[n].path>> = CheckoutSteps[n]
    /\ \A n \in 1..(Len(OrderCalls) - 1) : Returned(OrderCalls[n].result)
    /\ \A k \in OrderFrames :
          stack[k].response.order_status = "completed"
              => /\ Len(OrderCalls) = 3
                 /\ Returned(OrderCalls[3].result)

\* C5: order-service issues its calls in the order reserve, process, send,
\* each only after the previous one has returned; Completed is reached only
\* through all three steps; after Completed or Aborted no call is issued.
C5_SequentialSteps ==
    /\ []C5_StepOrder
    /\ [][OrderTerminal => (OrderCalls' = OrderCalls /\ OrderTerminal')]_vars

C5_Witness ==
    \E k \in OrderFrames :
        /\ stack[k].response.order_status = "completed"
        /\ Len(OrderCalls) = 3
        /\ \A n \in 1..3 : StepSucceeded(OrderCalls[n].result)

\* C6: when checkout aborts at the payment step after a successful
\* reservation, order-service issues no /release and no /refund call, nothing
\* follows the payment call, and the reported error is the payment failure.
C6_NoCompensation ==
    /\ \A n \in 1..Len(OrderCalls) : OrderCalls[n].path \notin {P_release, P_refund}
    /\ \A k \in OrderFrames :
          (/\ stack[k].pc = "responded"
           /\ Len(OrderCalls) >= 2
           /\ StepSucceeded(OrderCalls[1].result)
           /\ TransportFailure(OrderCalls[2].result))
              => /\ Len(OrderCalls) = 2
                 /\ ~ stack[k].response.success
                 /\ stack[k].response.status = 500
                 /\ stack[k].response.error = OrderCalls[2].result.error

C6_Witness ==
    \E k \in OrderFrames :
        /\ stack[k].pc = "responded"
        /\ Len(OrderCalls) = 2
        /\ StepSucceeded(OrderCalls[1].result)
        /\ TransportFailure(OrderCalls[2].result)
        /\ stack[k].response.status = 500

(***************************************************************************)
(* Properties of the trace headers and of call_service (Spec)              *)
(***************************************************************************)
\* the request whose handler issued request n (0: the client issued it)
Inbound(n) == calls[n].inv[1]

\* the traceparent and tracestate entries of a header map
TraceEntries(h) == [k \in TraceKeys \cap DOMAIN h |-> h[k]]

C13_WitnessOneKey ==
    \E n \in DOMAIN calls :
        /\ Inbound(n) # 0
        /\ DOMAIN calls[Inbound(n)].headers = {"Content-Type", "User-Agent", "tracestate"}
        /\ DOMAIN calls[n].headers = {"Content-Type", "tracestate"}

C15_UnknownServiceFailsFast ==
    \A k \in DOMAIN stack :
        (stack[k].ninv >= 1 /\ stack[k].target \notin DOMAIN SERVICE_REGISTRY)
            => /\ stack[k].ret.kind = "exception"
               /\ stack[k].ret.error = "ValueError"
               /\ \A n \in DOMAIN calls :
                     /\ calls[n].inv # <<stack[k].id, stack[k].ninv>>
                     /\ calls[n].service # stack[k].target

C15_Witness ==
    /\ Len(stack) = 1
    /\ Top.pc = "called"
    /\ Top.target = "edge-proxy"
    /\ Top.ret = Raised("ValueError")
    /\ calls = <<>>

\* the handler invocations waiting for, or holding, the outcome of request n
Callers(n) ==
    {k \in DOMAIN stack :
        /\ stack[k].call = n
        /\ <<stack[k].id, stack[k].ninv>> = calls[n].inv}

NetFailed(n) == calls[n].net \in {"timeout", "connection_error"}

C16_OneRequestFailureReported ==
    /\ \A n, m \in DOMAIN calls : calls[n].inv = calls[m].inv => n = m
    /\ \A n \in DOMAIN calls :
          NetFailed(n)
              => /\ calls[n].result.kind = "exception"
                 /\ ~ calls[n].result.success
                 /\ \A k \in Callers(n) : stack[k].ret = calls[n].result

\* C16: one call_service invocation issues at most one request; when the
\* request ends in a timeout or a connection error, no further request is
\* issued for that invocation, and the caller gets the raised error, never a
\* returned value.
C16_NoRetryFailureReported ==
    /\ []C16_OneRequestFailureReported
    /\ [][\A n \in DOMAIN calls : NetFailed(n) => calls'[n] = calls[n]]_vars

C16_Witness ==
    \E n \in DOMAIN calls, k \in DOMAIN stack :
        /\ calls[n].caller = "api-gateway"
        /\ calls[n].net = "timeout"
        /\ k \in Callers(n)
        /\ stack[k].pc = "responded"
        /\ stack[k].response.status = 500
        /\ stack[k].response.error = "ReadTimeout"

\* the error classes of the scenarios of a service
ErrorClasses(svc) == {catalog[svc][j].error_class : j \in 1..Len(catalog[svc])}

\* C17: when the callee answers with a non-2xx status and the body of an
\* injected error, the outcome call_service hands to its caller is not a
\* plain returned body as for a success.
C17_InjectedFailureClassified ==
    \A n \in DOMAIN calls :
        (/\ calls[n].net = "response"
         /\ calls[n].result.status \notin 200..299
         /\ calls[n].result.error \in ErrorClasses(calls[n].service))
            => calls[n].result.kind # "json"

(***************************************************************************)
(* Properties of the injection at the handlers and of the catalog (Spec)   *)
(***************************************************************************)
\* the scenarios of the handler's service whose descriptor the handler's
\* injection decision returned
FiredScenarios(f) ==
    {j \in 1..Len(catalog[f.service]) :
        <<catalog[f.service][j].error_class, catalog[f.service][j].message,
          catalog[f.service][j].status_code>> = f.injected}

\* C18: whenever the injection decision of a handler fires for a scenario,
\* the handler's HTTP response has that scenario's error_class as 'error',
\* its message as 'message' and its status_code as HTTP status.
C18_InjectedResponseCarriesScenario ==
    \A k \in DOMAIN stack :
        stack[k].injected # None
            => /\ FiredScenarios(stack[k]) # {}
               /\ stack[k].pc = "responded"
               /\ \A j \in FiredScenarios(stack[k]) :
                     LET sc == catalog[stack[k].service][j]
                     IN  /\ stack[k].response.error = sc.error_class
                         /\ stack[k].response.message = sc.message
                         /\ stack[k].response.status = sc.status_code

C18_Witness ==
    \E k \in DOMAIN stack :
        /\ stack[k].service = "inventory-service"
        /\ stack[k].injected # None
        /\ stack[k].response.status = 409
        /\ stack[k].response.error = "OutOfStockError"

\* C19: a handler whose injection decision fires answers with the error and
\* has issued no downstream call, neither before the decision nor after it.
C19_InjectionBeforeDownstreamCalls ==
    \A k \in DOMAIN stack :
        stack[k].injected # None
            => /\ stack[k].ninv = 0
               /\ \A n \in DOMAIN calls : calls[n].inv[1] # stack[k].id
               /\ stack[k].pc = "responded"
               /\ ~ stack[k].response.success

C19_Witness ==
    \E k \in DOMAIN stack :
        /\ stack[k].service = "order-service"
        /\ stack[k].injected # None
        /\ stack[k].pc = "responded"
        /\ Len(stack) = k
        /\ calls[stack[k].id].caller = "api-gateway"
        /\ Len(calls) = 2

\* the (rate in hundredths, status_code) pair of a named scenario
RateAndStatus(svc, name) ==
    LET j == CHOOSE i \in 1..Len(catalog[svc]) : catalog[svc][i].name = name
    IN  <<catalog[svc][j].rate, catalog[svc][j].status_code>>

\* C20: the catalog holds payment_declined 0.06/402, fraud_detected 0.02/403
\* and gateway_timeout 0.03/504 for payment-service, out_of_stock 0.08/409
\* for inventory-service, invalid_token 0.05/401 for auth-service, and the
\* rate of every scenario lies in [0.0, 1.0].
C20_CatalogRatesAndStatuses ==
    /\ RateAndStatus("payment-service", "payment_declined") = <<6, 402>>
    /\ RateAndStatus("payment-service", "fraud_detected") = <<2, 403>>
    /\ RateAndStatus("payment-service", "gateway_timeout") = <<3, 504>>
    /\ RateAndStatus("inventory-service", "out_of_stock") = <<8, 409>>
    /\ RateAndStatus("auth-service", "invalid_token") = <<5, 401>>
    /\ \A svc \in DOMAIN catalog :
          \A j \in 1..Len(catalog[svc]) :
              catalog[svc][j].rate \in 0..100

C20_Witness ==
    \E k \in DOMAIN stack :
        /\ stack[k].service = "payment-service"
        /\ stack[k].injected # None
        /\ stack[k].injected[3] = 504
        /\ stack[k].response.status = 504

\* the prices of the items that have one, added up from the last item
RECURSIVE PriceSum(_, _)
PriceSum(items, n) ==
    IF n = 0 THEN 0
    ELSE PriceSum(items, n - 1) + (IF items[n].has_price THEN items[n].price ELSE 0)

\* the items of the checkout request that order-service is handling or has handled
CheckoutItems ==
    LET n == CHOOSE i \in DOMAIN calls : calls[i].service = "order-service"
    IN  calls[n].data.items

\* C24: the total is the sum of the items' prices, an item without price
\* counting 0; that one value is the 'amount' sent to payment-service, the
\* 'total' sent to notification-service and the order total of the
\* completed checkout.
C24_OneTotalEverywhere ==
    (\E i \in DOMAIN calls : calls[i].service = "order-service")
        => LET total == PriceSum(CheckoutItems, Len(CheckoutItems))
           IN  /\ \A n \in 1..Len(OrderCalls) :
                     /\ OrderCalls[n].service = "payment-service"
                           => OrderCalls[n].data.amount = total
                     /\ OrderCalls[n].service = "notification-service"
                           => OrderCalls[n].data.total = total
               /\ \A k \in OrderFrames :
                     /\ stack[k].pc # "entry" /\ stack[k].injected = None
                           => stack[k].total = total
                     /\ stack[k].response.order_status = "completed"
                           => stack[k].response.order_total = total

C24_Witness ==
    \E k \in OrderFrames :
        /\ stack[k].response.order_status = "completed"
        /\ Len(stack[k].data.items) = 2
        /\ ~ stack[k].data.items[1].has_price
        /\ stack[k].data.items[2].has_price
        /\ stack[k].response.order_total = stack[k].data.items[2].price
        /\ Len(OrderCalls) = 3
        /\ OrderCalls[2].data.amount = stack[k].response.order_total
        /\ OrderCalls[3].data.total = stack[k].response.order_total

\* the invocations of api-gateway handlers in progress
GatewayFrames == {k \in DOMAIN stack : stack[k].service = "api-gateway"}

\* C26: every request a handler issues goes to a service of the calling
\* service's 'downstream' list in SERVICE_REGISTRY.
C26_CallsOnlyDeclaredDownstream ==
    \A n \in DOMAIN calls :
        calls[n].caller \in DOMAIN SERVICE_REGISTRY
            => \E i \in DOMAIN SERVICE_REGISTRY[calls[n].caller].downstream :
                  SERVICE_REGISTRY[calls[n].caller].downstream[i] = calls[n].service

\* C28: when the downstream service answered the gateway's call with a JSON
\* body, of whatever status, the gateway answers its client with the fields
\* of that body under status 200; the gateway answers with a non-2xx status
\* only when its own injection fired or its downstream call raised.
C28_GatewayForwardsBodyWith200 ==
    \A k \in GatewayFrames :
        stack[k].pc = "responded"
            => /\ stack[k].ret.kind = "json"
                    => /\ stack[k].response.status = 200
                       /\ stack[k].response.success = stack[k].ret.success
                       /\ stack[k].response.error = stack[k].ret.error
                       /\ stack[k].response.message = stack[k].ret.message
                       /\ stack[k].response.order_status = stack[k].ret.order_status
                       /\ stack[k].response.order_total = stack[k].ret.order_total
               /\ stack[k].response.status \notin 200..299
                    => \/ stack[k].injected # None
                       \/ stack[k].ret.kind = "exception"

C28_Witness ==
    \E k \in GatewayFrames :
        /\ stack[k].pc = "responded"
        /\ stack[k].route = P_api_checkout
        /\ stack[k].ret.kind = "json"
        /\ stack[k].ret.status = 400
        /\ stack[k].response.status = 200
        /\ stack[k].response.error = "OrderValidationError"
        /\ ~ stack[k].response.success

\* the handlers whose downstream calls are side effects
SideCallers == {"auth-service", "payment-service", "inventory-service"}

\* the requests the handler invocation of frame k issued that failed: the
\* call raised, or the answer is an error body
FailedCallsOf(k) ==
    {n \in DOMAIN calls :
        /\ calls[n].inv[1] = stack[k].id
        /\ \/ calls[n].result.kind = "exception"
           \/ calls[n].result.kind = "json" /\ ~ calls[n].result.success}

C29_WitnessErrorBody ==
    \E k \in DOMAIN stack :
        /\ stack[k].service = "auth-service"
        /\ stack[k].pc = "responded"
        /\ \E n \in FailedCallsOf(k) :
              calls[n].result.kind = "json" /\ calls[n].result.status = 500
        /\ stack[k].response.success

C29_WitnessLowStock ==
    \E k \in DOMAIN stack :
        /\ stack[k].service = "inventory-service"
        /\ stack[k].pc = "responded"
        /\ FailedCallsOf(k) # {}
        /\ stack[k].response.success

\* a checkout request has reached order-service
CheckoutStarted ==
    \E n \in DOMAIN calls :
        calls[n].service = "order-service" /\ calls[n].path = P_checkout /\ calls[n].net = "sent"

\* the two terminal outcomes of the checkout handler
OutcomeCompleted(f) == f.response.success /\ f.response.order_status = "completed"
OutcomeAborted(f) == ~ f.response.success /\ f.response.status \notin 200..299

\* no service is handling two requests of one call chain
NoServiceTwice ==
    \A i, j \in DOMAIN stack : i # j => stack[i].service # stack[j].service

\* C23: every checkout request that reached order-service is eventually
\* answered, with exactly one of the outcomes Completed and Aborted; the
\* chain of calls it triggers never enters a service twice, so its depth
\* is bounded by the number of services.
C23_CheckoutTerminates ==
    /\ CheckoutStarted ~> OrderTerminal
    /\ [](\A k \in OrderFrames :
            stack[k].pc = "responded"
                => (OutcomeCompleted(stack[k]) /\ ~ OutcomeAborted(stack[k]))
                   \/ (OutcomeAborted(stack[k]) /\ ~ OutcomeCompleted(stack[k])))
    /\ [](NoServiceTwice /\ Len(stack) <= Cardinality(DOMAIN SERVICE_REGISTRY) + 1)

C23_Witness ==
    /\ Len(stack) = 1
    /\ \E n, m \in DOMAIN calls :
          /\ calls[n].service = "order-service"
          /\ calls[n].result.kind = "json"
          /\ calls[n].result.order_status = "completed"
          /\ calls[m].caller = "payment-service"
          /\ calls[m].net = "timeout"

C23_WitnessAborted ==
    \E k \in OrderFrames :
        /\ stack[k].pc = "responded"
        /\ OutcomeAborted(stack[k])
        /\ stack[k].injected = None

\* the handler invocations of service svc in a stack
FramesOf(st, svc) == {k \in DOMAIN st : st[k].service = svc}

\* C21: no step of any request writes the scenario catalog or the service
\* registry, and a step of one request leaves everything of the other
\* request as it was: with its draws fixed, a checkout takes the same steps
\* to the same outcome whatever the other request does in between.
C21_RequestsShareNothingWritten ==
    [][ /\ catalog' = catalog
        /\ registry' = registry
        /\ cur' = cur => parked' = parked
        /\ cur' # cur => /\ parked' = [stack |-> stack, calls |-> calls]
                         /\ stack' = parked.stack
                         /\ calls' = parked.calls ]_vars

\* both requests are inside notification-service at once, the one with a
\* fired scenario and the other one without
C21_Witness ==
    /\ parked # <<>>
    /\ \E k \in FramesOf(stack, "notification-service"),
          m \in FramesOf(parked.stack, "notification-service") :
          /\ stack[k].pc = "responded"
          /\ stack[k].injected # None
          /\ parked.stack[m].pc = "responded"
          /\ parked.stack[m].injected = None

\* C27: while it handles one inbound request a handler consults the engine
\* at most once, and no scenario gets more than one random draw.
C27_OneConsultationPerRequest ==
    \A k \in DOMAIN stack :
        /\ stack[k].consults <= 1
        /\ \A i, j \in DOMAIN stack[k].drawn_for :
              stack[k].drawn_for[i] = stack[k].drawn_for[j] => i = j

(***************************************************************************)
(* Properties of get_error_for_service (SpecEngine)                        *)
(***************************************************************************)
\* indices, in declaration order, of the service's scenarios one of whose patterns matches
MatchingIndices ==
    IF service_name \in DOMAIN catalog
    THEN {j \in 1..Len(catalog[service_name]) :
             EndpointMatches(catalog[service_name][j].endpoints, endpoint)}
    ELSE {}

\* position of scenario j among the matching ones: the number of its draw
Rank(j) == Cardinality({i \in MatchingIndices : i <= j})

\* the matching scenarios whose own draw is below their rate
FiringIndices ==
    {j \in MatchingIndices : rnd[Rank(j)] < catalog[service_name][j].rate}

Least(S) == CHOOSE x \in S : \A y \in S : x <= y

Descriptor(j) ==
    LET sc == catalog[service_name][j]
    IN  <<sc.error_class, sc.message, sc.status_code>>

\* C7: for a service without catalog entry, and for a (service, endpoint) pair
\* that no scenario's patterns match, get_error_for_service returns None,
\* raises nothing and makes no random draw.
C7_NoInjectionWithoutMatch ==
    (epc = "done" /\ MatchingIndices = {})
        => (error_info = None /\ raised = "" /\ drawn = 0)

C7_Witness ==
    /\ epc = "done"
    /\ service_name \in DOMAIN catalog
    /\ Len(catalog[service_name]) = 2
    /\ MatchingIndices = {}
    /\ error_info = None

\* C8: with a single matching scenario the error is injected exactly when the
\* draw is strictly below the rate; with rate 1.0 it is injected for every
\* draw, with rate 0.0 for none.
C8_FiresIffDrawBelowRate ==
    (epc = "done" /\ Cardinality(MatchingIndices) = 1)
        => LET j == Least(MatchingIndices)
               rate == catalog[service_name][j].rate
           IN  /\ (error_info # None) <=> (rnd[1] < rate)
               /\ rate = 100 => error_info = Descriptor(j)
               /\ rate = 0 => error_info = None

C8_Witness ==
    /\ epc = "done"
    /\ Cardinality(MatchingIndices) = 1
    /\ catalog[service_name][Least(MatchingIndices)].rate = 100
    /\ rnd[1] = 99
    /\ error_info # None

\* C9: the returned descriptor is that of the first scenario, in declaration
\* order, among the matching scenarios whose draw fires; two matching
\* scenarios of rate 1.0 always yield the first declared one.
C9_FirstDeclaredFiringWins ==
    (epc = "done" /\ MatchingIndices # {})
        => /\ FiringIndices = {} => error_info = None
           /\ FiringIndices # {} => error_info = Descriptor(Least(FiringIndices))
           /\ (\A j \in MatchingIndices : catalog[service_name][j].rate = 100)
                 => error_info = Descriptor(Least(MatchingIndices))

C9_Witness ==
    /\ epc = "done"
    /\ Cardinality(MatchingIndices) = 2
    /\ \A j \in MatchingIndices : catalog[service_name][j].rate = 100
    /\ error_info = Descriptor(1)
    /\ error_info # Descriptor(2)

\* C22: get_error_for_service draws once per matching scenario, in
\* declaration order, up to and including the first scenario that fires;
\* it draws nothing for a scenario that does not match and nothing after the
\* scenario that fired.
C22_OneDrawPerTriedScenario ==
    epc = "done"
        => drawn = (IF FiringIndices = {}
                    THEN Cardinality(MatchingIndices)
                    ELSE Rank(Least(FiringIndices)))

C22_Witness ==
    /\ epc = "done"
    /\ service_name \in DOMAIN catalog
    /\ Len(catalog[service_name]) = 2
    /\ MatchingIndices = {1, 2}
    /\ FiringIndices = {1, 2}
    /\ drawn = 1

C22_WitnessSkipsNonMatching ==
    /\ epc = "done"
    /\ service_name \in DOMAIN catalog
    /\ Len(catalog[service_name]) = 2
    /\ MatchingIndices = {2}
    /\ FiringIndices = {}
    /\ drawn = 1

\* C25: for the same service, endpoint and draws, should_inject_error
\* returns True exactly when get_error_for_service returns a descriptor, and
\* both make the same number of draws.
C25_ShouldInjectAgrees ==
    spc = "done"
        => /\ should_inject <=> (error_info # None)
           /\ should_drawn = drawn

C25_Witness ==
    /\ spc = "done"
    /\ service_name \in DOMAIN catalog
    /\ Len(catalog[service_name]) = 2
    /\ MatchingIndices = {2}
    /\ should_inject
    /\ should_drawn = 1
    /\ error_info = Descriptor(2)

\* the endpoints the handlers of user-service pass to maybe_raise_error
UserServiceEndpoints == {P_users, P_profile}

\* C30: for user-service with endpoint '/users' the scenario user_not_found
\* gets no draw and is never returned, the only descriptor returned is
\* database_timeout (504); among the endpoints the user-service handlers
\* pass, user_not_found is returned for '/profile' only.
C30_UsersNeverUserNotFound ==
    (/\ epc = "done"
     /\ catalog = ERROR_SCENARIOS
     /\ service_name = "user-service"
     /\ endpoint \in UserServiceEndpoints)
        => /\ endpoint = P_users
                => /\ drawn = 1
                   /\ error_info # None
                         => /\ error_info[1] = "DatabaseTimeoutError"
                            /\ error_info[3] = 504
           /\ (error_info # None /\ error_info[1] = "UserNotFoundError")
                => endpoint = P_profile

C30_Witness ==
    /\ epc = "done"
    /\ catalog = ERROR_SCENARIOS
    /\ service_name = "user-service"
    /\ endpoint = P_users
    /\ rnd[1] = 0
    /\ error_info # None
    /\ error_info[3] = 504

C30_WitnessProfile ==
    /\ epc = "done"
    /\ catalog = ERROR_SCENARIOS
    /\ service_name = "user-service"
    /\ endpoint = P_profile
    /\ error_info # None
    /\ error_info[1] = "UserNotFoundError"

(***************************************************************************)
(* Properties of the endpoint test (SpecMatch)                             *)
(***************************************************************************)
\* the rule of the specification for one pattern
SpecifiedRule(p, s) ==
    \/ p = P_star
    \/ p = s
    \/ /\ p[Len(p)] = "*"
       /\ StartsWith(s, SubSeq(p, 1, Len(p) - 1))

\* C10: the endpoint test matches a pattern against a path if and only if the
\* pattern is "*", or equals the path, or ends in "*" and is, with that
\* trailing "*" stripped, a prefix of the path.
C10_MatchAgreesWithRule ==
    mpc = "done" => (endpoint_matches <=> SpecifiedRule(pattern, path))

\* the pattern is a star-free prefix followed by one "*"
IsPrefixPattern(p) ==
    /\ Len(p) >= 1
    /\ p[Len(p)] = "*"
    /\ \A i \in 1..(Len(p) - 1) : p[i] # "*"

\* s begins with the characters of p that precede its final "*"
BeginsWithPrefixOf(p, s) ==
    /\ Len(s) >= Len(p) - 1
    /\ \A i \in 1..(Len(p) - 1) : s[i] = p[i]

\* C11: a scenario whose only pattern is a prefix pattern 'P*' matches every
\* path that starts with P and no path that does not start with P.
C11_PrefixPatternMatchesPrefix ==
    (mpc = "done" /\ IsPrefixPattern(pattern))
        => (endpoint_matches <=> BeginsWithPrefixOf(pattern, path))

C11_Witness ==
    /\ mpc = "done"
    /\ pattern = P_api_star
    /\ path = P_api_login
    /\ endpoint_matches

C11_WitnessNoMatch ==
    /\ mpc = "done"
    /\ pattern = P_api_star
    /\ path = P_health
    /\ ~ endpoint_matches

====
